---- MODULE Spec2Model ----
(***************************************************************************)
(* A model of FileServer.py, the secure filesystem MCP server: the path    *)
(* validator (validate_path), the edit engine (apply_file_edits) and the   *)
(* tool handlers that call them.                                           *)
(*                                                                         *)
(* Strings are sequences of one-character strings, so that the prefix test *)
(* of validate_path (str.startswith) is a test on characters and not on    *)
(* path components.  The filesystem is a function from canonical absolute  *)
(* path strings to nodes (directories, files with a text content, symbolic *)
(* links with a target string).                                            *)
(***************************************************************************)
EXTENDS Integers, Sequences, FiniteSets, TLC

VARIABLES
    phase,                 \* "init" | "idle" | "done" | "exited"
    allowed_directories,   \* the module-level list of FileServer.py:25
    fs,                    \* the filesystem: path string -> node
    last,                  \* the tool call just executed (when phase = "done")
    served                 \* how many tool calls the server has executed

vars == <<phase, allowed_directories, fs, last, served>>

----------------------------------------------------------------------------
(* Strings *)

SEP == "/"

Min(x, y) == IF x < y THEN x ELSE y
Max(x, y) == IF x > y THEN x ELSE y

\* str.startswith
StartsWith(s, p) ==
    /\ Len(p) <= Len(s)
    /\ SubSeq(s, 1, Len(p)) = p

\* s[i:] for a 0-based i
From(s, i) == SubSeq(s, i + 1, Len(s))

\* s[:i] for a 0-based i
Upto(s, i) == SubSeq(s, 1, i)

\* the 0-based index of the first occurrence of character c at or after
\* 0-based position i, or -1 (str.find)
FindChar(s, c, i) ==
    LET hits == {k \in (i + 1)..Len(s) : s[k] = c}
    IN  IF hits = {} THEN -1
        ELSE (CHOOSE k \in hits : \A h \in hits : k <= h) - 1

\* the 0-based index of the last occurrence of character c, or -1 (str.rfind)
RFindChar(s, c) ==
    LET hits == {k \in 1..Len(s) : s[k] = c}
    IN  IF hits = {} THEN -1
        ELSE (CHOOSE k \in hits : \A h \in hits : k >= h) - 1

\* str.rstrip('/')
RECURSIVE RStripSep(_)
RStripSep(s) ==
    IF s # <<>> /\ s[Len(s)] = SEP THEN RStripSep(Upto(s, Len(s) - 1)) ELSE s

\* str.split('/')
RECURSIVE SplitSep(_)
SplitSep(s) ==
    LET i == FindChar(s, SEP, 0)
    IN  IF i = -1 THEN <<s>>
        ELSE <<Upto(s, i)>> \o SplitSep(From(s, i + 1))

\* '/'.join(comps)
RECURSIVE JoinSep(_)
JoinSep(comps) ==
    IF comps = <<>> THEN <<>>
    ELSE IF Len(comps) = 1 THEN comps[1]
    ELSE comps[1] \o <<SEP>> \o JoinSep(Tail(comps))

----------------------------------------------------------------------------
(* posixpath, as FileServer.py uses it *)

\* the environment of the process: HOME and the current working directory
HOME == <<"/", "o">>
CWD  == <<"/", "d">>

isabs(p) == StartsWith(p, <<SEP>>)

\* posixpath.join(a, b)
join(a, b) ==
    IF isabs(b) THEN b
    ELSE IF a = <<>> \/ a[Len(a)] = SEP THEN a \o b
    ELSE a \o <<SEP>> \o b

\* posixpath.split(p): <<head, tail>>
split(p) ==
    LET i    == RFindChar(p, SEP) + 1
        head == Upto(p, i)
        tail == From(p, i)
        allsep == \A k \in 1..Len(head) : head[k] = SEP
    IN  <<IF head # <<>> /\ ~allsep THEN RStripSep(head) ELSE head, tail>>

dirname(p) == split(p)[1]

\* the component loop of posixpath.normpath
RECURSIVE NormComps(_, _, _)
NormComps(comps, new_comps, initial_slashes) ==
    IF comps = <<>> THEN new_comps
    ELSE
        LET comp == Head(comps)
            rest == Tail(comps)
        IN  IF comp = <<>> \/ comp = <<".">> THEN
                NormComps(rest, new_comps, initial_slashes)
            ELSE IF \/ comp # <<".", ".">>
                    \/ (initial_slashes = 0 /\ new_comps = <<>>)
                    \/ (new_comps # <<>> /\ new_comps[Len(new_comps)] = <<".", ".">>)
                 THEN NormComps(rest, Append(new_comps, comp), initial_slashes)
            ELSE IF new_comps # <<>> THEN
                NormComps(rest, Upto(new_comps, Len(new_comps) - 1), initial_slashes)
            ELSE NormComps(rest, new_comps, initial_slashes)

\* posixpath.normpath
normpath(path) ==
    IF path = <<>> THEN <<".">>
    ELSE
        LET initial_slashes ==
                IF ~StartsWith(path, <<SEP>>) THEN 0
                ELSE IF StartsWith(path, <<SEP, SEP>>) /\ ~StartsWith(path, <<SEP, SEP, SEP>>)
                     THEN 2
                ELSE 1
            body == JoinSep(NormComps(SplitSep(path), <<>>, initial_slashes))
            out  == [k \in 1..initial_slashes |-> SEP] \o body
        IN  IF out = <<>> THEN <<".">> ELSE out

\* posixpath.abspath
abspath(path) ==
    normpath(IF isabs(path) THEN path ELSE join(CWD, path))

\* posixpath.expanduser; the only account of the model is the invoking user,
\* so that "~name" finds no such user and is returned as it is
expanduser(path) ==
    IF ~StartsWith(path, <<"~">>) THEN path
    ELSE
        LET f == FindChar(path, SEP, 1)
            i == IF f < 0 THEN Len(path) ELSE f
        IN  IF i # 1 THEN path
            ELSE LET out == RStripSep(HOME) \o From(path, i)
                 IN  IF out = <<>> THEN <<SEP>> ELSE out

----------------------------------------------------------------------------
(* The filesystem *)

\* the character a path may not hold: any os call on such a path raises
\* ValueError (embedded null byte)
NUL == "NUL"

HasNul(p) == \E k \in 1..Len(p) : p[k] = NUL

Dir        == [type |-> "dir",  data |-> <<>>]
File(c)    == [type |-> "file", data |-> c]
Link(t)    == [type |-> "link", data |-> t]

ROOT == <<SEP>>

\* os.lstat(p) succeeds and reports a symbolic link
islink(fsys, p) == p \in DOMAIN fsys /\ fsys[p].type = "link"

\* the link resolution of posixpath._joinrealpath (strict = False); seen maps
\* a link's path to its resolution, <<>> standing for None (being resolved).
\* joinrealpath is the function's entry, joinrealpath_loop its while loop.
RECURSIVE joinrealpath(_, _, _, _), joinrealpath_loop(_, _, _, _)
joinrealpath(fsys, path, rest, seen) ==
    IF isabs(rest) THEN joinrealpath_loop(fsys, <<SEP>>, Tail(rest), seen)
    ELSE joinrealpath_loop(fsys, path, rest, seen)

joinrealpath_loop(fsys, path, rest, seen) ==
    IF rest = <<>> THEN [path |-> path, ok |-> TRUE, seen |-> seen, raised |-> FALSE]
    ELSE
        LET i     == FindChar(rest, SEP, 0)
            name  == IF i < 0 THEN rest ELSE Upto(rest, i)
            rest2 == IF i < 0 THEN <<>> ELSE From(rest, i + 1)
            newpath == join(path, name)
        IN  IF name = <<>> \/ name = <<".">> THEN
                joinrealpath_loop(fsys, path, rest2, seen)
            ELSE IF name = <<".", ".">> THEN
                IF path # <<>> THEN
                    LET sp == split(path)
                    IN  joinrealpath_loop(fsys,
                            IF sp[2] = <<".", ".">>
                            THEN join(join(sp[1], <<".", ".">>), <<".", ".">>)
                            ELSE sp[1],
                            rest2, seen)
                ELSE joinrealpath_loop(fsys, <<".", ".">>, rest2, seen)
            ELSE IF HasNul(newpath) THEN
                \* os.lstat raises ValueError, which is no OSError
                [path |-> newpath, ok |-> FALSE, seen |-> seen, raised |-> TRUE]
            ELSE IF ~islink(fsys, newpath) THEN
                joinrealpath_loop(fsys, newpath, rest2, seen)
            ELSE IF newpath \in DOMAIN seen /\ seen[newpath] # <<>> THEN
                \* use the cached value
                joinrealpath_loop(fsys, seen[newpath], rest2, seen)
            ELSE IF newpath \in DOMAIN seen THEN
                \* a symlink loop: the resolved part and the rest, unchanged
                [path |-> join(newpath, rest2), ok |-> FALSE, seen |-> seen,
                 raised |-> FALSE]
            ELSE
                LET seen1 == [x \in DOMAIN seen \cup {newpath} |->
                                IF x = newpath THEN <<>> ELSE seen[x]]
                    r == joinrealpath(fsys, path, fsys[newpath].data, seen1)
                IN  IF r.raised THEN r
                    ELSE IF ~r.ok THEN
                        [path |-> join(r.path, rest2), ok |-> FALSE, seen |-> r.seen,
                         raised |-> FALSE]
                    ELSE
                        joinrealpath_loop(fsys, r.path, rest2,
                            [x \in DOMAIN r.seen |->
                                IF x = newpath THEN r.path ELSE r.seen[x]])

\* os.path.realpath: [raised, path]
realpath(fsys, filename) ==
    LET r == joinrealpath(fsys, <<>>, filename, <<>>)
    IN  [raised |-> r.raised, path |-> IF r.raised THEN <<>> ELSE abspath(r.path)]

----------------------------------------------------------------------------
(* The operating system's side of the os calls FileServer.py makes *)

\* how many symbolic links the kernel follows in one lookup before ELOOP
MaxHops == 4

Ok(p, present) == [err |-> "ok", path |-> p, present |-> present]
Err(e)         == [err |-> e, path |-> <<>>, present |-> FALSE]

\* the kernel's walk of the components comps from directory cur; follow says
\* whether a symbolic link in the last component is followed.  A lookup that
\* ends on a missing last component of an existing directory is "ok" with
\* present = FALSE (what a creating call needs).
RECURSIVE KWalk(_, _, _, _, _)
KWalk(fsys, cur, comps, follow, fuel) ==
    IF comps = <<>> THEN Ok(cur, TRUE)
    ELSE
        LET c     == Head(comps)
            rest  == Tail(comps)
            child == join(cur, c)
            last_one == \A k \in 1..Len(rest) : rest[k] = <<>>
        IN  IF c = <<>> \/ c = <<".">> THEN KWalk(fsys, cur, rest, follow, fuel)
            ELSE IF c = <<".", ".">> THEN KWalk(fsys, dirname(cur), rest, follow, fuel)
            ELSE IF child \notin DOMAIN fsys THEN
                IF last_one THEN Ok(child, FALSE) ELSE Err("ENOENT")
            ELSE IF fsys[child].type = "dir" THEN KWalk(fsys, child, rest, follow, fuel)
            ELSE IF fsys[child].type = "file" THEN
                IF rest = <<>> THEN Ok(child, TRUE) ELSE Err("ENOTDIR")
            ELSE IF rest = <<>> /\ ~follow THEN Ok(child, TRUE)
            ELSE IF fuel = 0 THEN Err("ELOOP")
            ELSE KWalk(fsys, IF isabs(fsys[child].data) THEN ROOT ELSE cur,
                       SplitSep(fsys[child].data) \o rest, follow, fuel - 1)

\* the kernel's lookup of path string p
Lookup(fsys, p, follow) ==
    IF HasNul(p) THEN Err("ValueError")
    ELSE IF p = <<>> THEN Err("ENOENT")
    ELSE KWalk(fsys, IF isabs(p) THEN ROOT ELSE CWD, SplitSep(p), follow, MaxHops)

\* os.path.isdir, os.path.isfile, os.path.exists
isdir(fsys, p) ==
    LET r == Lookup(fsys, p, TRUE)
    IN  r.err = "ok" /\ r.present /\ fsys[r.path].type = "dir"

isfile(fsys, p) ==
    LET r == Lookup(fsys, p, TRUE)
    IN  r.err = "ok" /\ r.present /\ fsys[r.path].type = "file"

exists(fsys, p) ==
    LET r == Lookup(fsys, p, TRUE)
    IN  r.err = "ok" /\ r.present

\* the entries of directory d
Children(fsys, d) == {q \in DOMAIN fsys : q # ROOT /\ dirname(q) = d}

\* the paths below directory d
Below(fsys, d) == {q \in DOMAIN fsys : q # d /\ StartsWith(q, join(d, <<>>))}

\* fsys with path q bound to node n
Put(fsys, q, n) == [x \in DOMAIN fsys \cup {q} |-> IF x = q THEN n ELSE fsys[x]]

\* os.mkdir(p): [err, fs]
mkdir(fsys, p) ==
    LET r == Lookup(fsys, p, FALSE)
    IN  IF r.err # "ok" THEN [err |-> r.err, fs |-> fsys]
        ELSE IF r.present THEN [err |-> "EEXIST", fs |-> fsys]
        ELSE [err |-> "ok", fs |-> Put(fsys, r.path, Dir)]

\* os.makedirs(name, exist_ok=True): [err, fs].  makedirs_leaf is what it does
\* once the directories above name are made (up is how that went),
\* makedirs_split is its split of name, taken again for a name that ends in "/".
makedirs_leaf(up, name, tail, made) ==
    \* a FileExistsError of the recursive call is passed over, any other raised
    IF up.err \notin {"ok", "EEXIST"} THEN up
    ELSE IF tail = <<".">> THEN [err |-> "ok", fs |-> up.fs]
    ELSE IF made.err # "ok" /\ isdir(up.fs, name) THEN [err |-> "ok", fs |-> up.fs]
    ELSE made

makedirs_split(sp) == IF sp[2] = <<>> THEN split(sp[1]) ELSE sp

RECURSIVE makedirs(_, _), makedirs_above(_, _, _)
makedirs_above(fsys, name, sp) ==
    IF sp[1] # <<>> /\ sp[2] # <<>> /\ ~exists(fsys, sp[1])
    THEN makedirs(fsys, sp[1])
    ELSE [err |-> "ok", fs |-> fsys]

makedirs_from(up, name, tail) == makedirs_leaf(up, name, tail, mkdir(up.fs, name))

makedirs_at(fsys, name, sp) == makedirs_from(makedirs_above(fsys, name, sp), name, sp[2])

makedirs(fsys, name) ==
    IF HasNul(name) THEN [err |-> "ValueError", fs |-> fsys]
    ELSE makedirs_at(fsys, name, makedirs_split(split(name)))

\* open(p, 'r') and read(): [err, data]
read_open(fsys, p) ==
    LET r == Lookup(fsys, p, TRUE)
    IN  IF r.err # "ok" THEN [err |-> r.err, data |-> <<>>]
        ELSE IF ~r.present THEN [err |-> "ENOENT", data |-> <<>>]
        ELSE IF fsys[r.path].type = "dir" THEN [err |-> "EISDIR", data |-> <<>>]
        ELSE [err |-> "ok", data |-> fsys[r.path].data]

\* open(p, 'w'), write(content): [err, fs]
write_open(fsys, p, content) ==
    LET r == Lookup(fsys, p, TRUE)
    IN  IF r.err # "ok" THEN [err |-> r.err, fs |-> fsys]
        ELSE IF r.present /\ fsys[r.path].type = "dir" THEN [err |-> "EISDIR", fs |-> fsys]
        ELSE [err |-> "ok", fs |-> Put(fsys, r.path, File(content))]

\* os.listdir(p): [err, names]
listdir(fsys, p) ==
    LET r == Lookup(fsys, p, TRUE)
    IN  IF r.err # "ok" THEN [err |-> r.err, names |-> {}]
        ELSE IF ~r.present THEN [err |-> "ENOENT", names |-> {}]
        ELSE IF fsys[r.path].type # "dir" THEN [err |-> "ENOTDIR", names |-> {}]
        ELSE [err |-> "ok", names |-> {split(q)[2] : q \in Children(fsys, r.path)}]

\* os.rename(src, dst): [err, fs].  Neither last component is followed.
rename(fsys, src, dst) ==
    LET s == Lookup(fsys, src, FALSE)
        d == Lookup(fsys, dst, FALSE)
        moved == {s.path} \cup Below(fsys, s.path)
        gone  == moved \cup {d.path}
        to(q) == d.path \o From(q, Len(s.path))
    IN  IF s.err # "ok" THEN [err |-> s.err, fs |-> fsys]
        ELSE IF ~s.present THEN [err |-> "ENOENT", fs |-> fsys]
        ELSE IF d.err # "ok" THEN [err |-> d.err, fs |-> fsys]
        ELSE IF s.path = d.path THEN [err |-> "ok", fs |-> fsys]
        ELSE IF s.path = ROOT \/ d.path = ROOT THEN [err |-> "EBUSY", fs |-> fsys]
        ELSE IF StartsWith(d.path, join(s.path, <<>>)) THEN [err |-> "EINVAL", fs |-> fsys]
        ELSE IF d.present /\ fsys[s.path].type = "dir" /\ fsys[d.path].type # "dir"
             THEN [err |-> "ENOTDIR", fs |-> fsys]
        ELSE IF d.present /\ fsys[s.path].type # "dir" /\ fsys[d.path].type = "dir"
             THEN [err |-> "EISDIR", fs |-> fsys]
        ELSE IF d.present /\ fsys[d.path].type = "dir" /\ Children(fsys, d.path) # {}
             THEN [err |-> "ENOTEMPTY", fs |-> fsys]
        ELSE [err |-> "ok",
              fs |-> [x \in (DOMAIN fsys \ gone) \cup {to(q) : q \in moved} |->
                        IF \E q \in moved : to(q) = x
                        THEN fsys[CHOOSE q \in moved : to(q) = x]
                        ELSE fsys[x]]]

----------------------------------------------------------------------------
(* Helper functions of FileServer.py *)

expand_home(path) == expanduser(path)

normalize_path(path) == normpath(path)

\* normalized_path as it would be if the try statement kept the absolute,
\* unresolved form of the path
normalized_path_unresolved(absolute, resolved) == normalize_path(absolute)

\* resolve_path as it would be with os.readlink in the place of
\* os.path.realpath: a link is followed once, and only as the last component
resolve_path_readlink(absolute) ==
    IF islink(fs, absolute)
    THEN normalize_path(join(dirname(absolute), fs[absolute].data))
    ELSE normalize_path(absolute)

\* validate_path: [ok, path]; ok = FALSE is the ValueError "Access denied".
\* normalized_path is its try statement, given what os.path.realpath did;
\* within_allowed is its loop over the allowed directories.
normalized_path(absolute, resolved) ==
    IF resolved.raised THEN normalize_path(absolute)
    ELSE normalize_path(resolved.path)

within_allowed(normalized) ==
    IF \E i \in 1..Len(allowed_directories) :
            StartsWith(normalized, allowed_directories[i])
    THEN [ok |-> TRUE, path |-> normalized]
    ELSE [ok |-> FALSE, path |-> <<>>]

resolve_path(absolute) == normalized_path(absolute, realpath(fs, absolute))

validate_path(file_path) == within_allowed(resolve_path(abspath(expand_home(file_path))))

\* what a handler leaves behind: the filesystem, its result (a value or the
\* exception raised) and the os calls and validations it made, in order
Outcome(fsys, kind, value, trace) ==
    [fs |-> fsys, result |-> [kind |-> kind, value |-> value], trace |-> trace]

EvValidate(arg, v) == [kind |-> "validate", arg |-> arg, ok |-> v.ok, out |-> v.path]
Ev(kind, arg)      == [kind |-> kind, arg |-> arg, ok |-> TRUE, out |-> <<>>]
EvRename(src, dst) == [kind |-> "rename", arg |-> src, ok |-> TRUE, out |-> dst]

Denied(fsys, arg, v) == Outcome(fsys, "AccessDenied", arg, <<EvValidate(arg, v)>>)

\* file.readlines(): the lines with their line ends
RECURSIVE readlines(_)
readlines(c) ==
    LET i == FindChar(c, "\n", 0)
    IN  IF c = <<>> THEN <<>>
        ELSE IF i < 0 THEN <<c>>
        ELSE <<Upto(c, i + 1)>> \o readlines(From(c, i + 1))

\* ''.join(lines)
RECURSIVE Concat(_)
Concat(lines) == IF lines = <<>> THEN <<>> ELSE Head(lines) \o Concat(Tail(lines))

\* read_file_content: [err, data].  File contents are text: the latin-1
\* fallback, for bytes that are no UTF-8, is not in the model.
read_file_content(fsys, file_path) == read_open(fsys, file_path)

\* write_file_content: [err, fs]; write_after is its open and write, given
\* what os.makedirs did
write_after(m, file_path, content) ==
    IF m.err # "ok" THEN m ELSE write_open(m.fs, file_path, content)

write_file_content(fsys, file_path, content) ==
    write_after(makedirs(fsys, dirname(file_path)), file_path, content)

\* lines[-num_lines:] and lines[:num_lines]
LastLines(lines, num_lines) ==
    SubSeq(lines, Max(1, Len(lines) - num_lines + 1), Len(lines))

FirstLines(lines, num_lines) == SubSeq(lines, 1, Min(num_lines, Len(lines)))

\* the text a reading helper makes of what open and read gave
Read(r, data) == IF r.err # "ok" THEN r ELSE [err |-> "ok", data |-> data]

\* tail_file: [err, data]
tail_lines(r, num_lines) == Read(r, Concat(LastLines(readlines(r.data), num_lines)))

tail_file(fsys, file_path, num_lines) == tail_lines(read_open(fsys, file_path), num_lines)

\* head_file: [err, data]
head_lines(r, num_lines) == Read(r, Concat(FirstLines(readlines(r.data), num_lines)))

head_file(fsys, file_path, num_lines) == head_lines(read_open(fsys, file_path), num_lines)

\* get_file_stats: [err, data]; of the statistics, what kind of node it is
get_file_stats(fsys, file_path) ==
    LET r == Lookup(fsys, file_path, TRUE)
    IN  IF r.err # "ok" THEN [err |-> r.err, data |-> <<>>]
        ELSE IF ~r.present THEN [err |-> "ENOENT", data |-> <<>>]
        ELSE [err |-> "ok",
              data |-> [isDirectory |-> isdir(fsys, file_path),
                        isFile |-> isfile(fsys, file_path)]]

\* fnmatch.fnmatch, for patterns of literal characters and "*"
RECURSIVE fnmatch(_, _)
fnmatch(name, pat) ==
    IF pat = <<>> THEN name = <<>>
    ELSE IF Head(pat) = "*" THEN
        fnmatch(name, Tail(pat)) \/ (name # <<>> /\ fnmatch(Tail(name), pat))
    ELSE name # <<>> /\ Head(name) = Head(pat) /\ fnmatch(Tail(name), Tail(pat))

Excluded(name, exclude_patterns) ==
    \E k \in 1..Len(exclude_patterns) : fnmatch(name, exclude_patterns[k])

\* the helper search_files of FileServer.py:132 (the name search_files of this
\* module is the tool of FileServer.py:410): the files os.walk finds below
\* directory, a set as os.walk's order is the directory order.  os.walk
\* passes over what it cannot list and does not enter a linked directory.
RECURSIVE search_files_helper(_, _, _, _)
search_files_helper(fsys, directory, pattern, exclude_patterns) ==
    LET l     == listdir(fsys, directory)
        names == IF l.err = "ok" THEN l.names ELSE {}
        dirs  == {n \in names : isdir(fsys, join(directory, n))
                                  /\ ~Excluded(n, exclude_patterns)}
        files == {n \in names : ~isdir(fsys, join(directory, n))}
        here  == {join(directory, n) : n \in
                    {f \in files : fnmatch(f, pattern)
                                    /\ ~Excluded(join(directory, f), exclude_patterns)}}
    IN  here \cup UNION {search_files_helper(fsys, join(directory, n), pattern,
                                              exclude_patterns) :
                            n \in {d \in dirs : ~islink(fsys, join(directory, d))}}

\* build_directory_tree: the set of entries, each with its children
RECURSIVE build_directory_tree(_, _, _)
build_directory_tree(fsys, directory, exclude_patterns) ==
    LET l == listdir(fsys, directory)
    IN  IF l.err # "ok" THEN [err |-> l.err, data |-> {}]
        ELSE
            LET kept == {n \in l.names : ~Excluded(n, exclude_patterns)}
                sub(n) == build_directory_tree(fsys, join(directory, n), exclude_patterns)
                bad == {n \in kept : isdir(fsys, join(directory, n)) /\ sub(n).err # "ok"}
            IN  IF bad # {} THEN [err |-> sub(CHOOSE n \in bad : TRUE).err, data |-> {}]
                ELSE [err |-> "ok",
                      data |-> {IF isdir(fsys, join(directory, n))
                                THEN [name |-> n, type |-> "directory",
                                      children |-> sub(n).data]
                                ELSE [name |-> n, type |-> "file", children |-> {}] :
                                n \in kept}]

----------------------------------------------------------------------------
(* str and difflib, as apply_file_edits uses them *)

\* str.find(sub) from 0-based position start: the first index, or -1
FindSub(s, sub, start) ==
    LET hits == {i \in start..(Len(s) - Len(sub)) : SubSeq(s, i + 1, i + Len(sub)) = sub}
    IN  IF hits = {} THEN -1 ELSE CHOOSE i \in hits : \A h \in hits : i <= h

\* sub in s
Contains(s, sub) == FindSub(s, sub, 0) >= 0

\* str.count(sub): the occurrences that do not overlap, counted from the left
RECURSIVE count(_, _)
count(s, sub) ==
    IF sub = <<>> THEN Len(s) + 1
    ELSE LET i == FindSub(s, sub, 0)
         IN  IF i < 0 THEN 0 ELSE 1 + count(From(s, i + Len(sub)), sub)

\* str.replace(old, new, 1)
replace_first(s, old, new) ==
    LET i == FindSub(s, old, 0)
    IN  IF i < 0 THEN s ELSE Upto(s, i) \o new \o From(s, i + Len(old))

\* str.splitlines(), for the line end "\n"
RECURSIVE splitlines(_)
splitlines(c) ==
    LET i == FindChar(c, "\n", 0)
    IN  IF c = <<>> THEN <<>>
        ELSE IF i < 0 THEN <<c>>
        ELSE <<Upto(c, i)>> \o splitlines(From(c, i + 1))

\* SequenceMatcher.find_longest_match: <<i, j, k>> with a[i:i+k] = b[j:j+k], the
\* longest such block, of those the first in a, of those the first in b
find_longest_match(a, b, alo, ahi, blo, bhi) ==
    LET blocks == {m \in (alo..(ahi - 1)) \X (blo..(bhi - 1)) \X (1..(ahi - alo)) :
                      /\ m[1] + m[3] <= ahi
                      /\ m[2] + m[3] <= bhi
                      /\ SubSeq(a, m[1] + 1, m[1] + m[3]) = SubSeq(b, m[2] + 1, m[2] + m[3])}
        better(m, o) == \/ m[3] > o[3]
                        \/ m[3] = o[3] /\ m[1] < o[1]
                        \/ m[3] = o[3] /\ m[1] = o[1] /\ m[2] <= o[2]
    IN  IF blocks = {} THEN <<alo, blo, 0>>
        ELSE CHOOSE m \in blocks : \A o \in blocks : better(m, o)

\* the blocks SequenceMatcher.get_matching_blocks finds, in order
RECURSIVE matching(_, _, _, _, _, _)
matching(a, b, alo, ahi, blo, bhi) ==
    LET m == find_longest_match(a, b, alo, ahi, blo, bhi)
        i == m[1]
        j == m[2]
        k == m[3]
    IN  IF k = 0 THEN <<>>
        ELSE (IF alo < i /\ blo < j THEN matching(a, b, alo, i, blo, j) ELSE <<>>)
             \o <<m>>
             \o (IF i + k < ahi /\ j + k < bhi
                 THEN matching(a, b, i + k, ahi, j + k, bhi) ELSE <<>>)

\* adjacent blocks collapsed into one
RECURSIVE collapse(_, _)
collapse(cur, blocks) ==
    IF blocks = <<>> THEN IF cur[3] > 0 THEN <<cur>> ELSE <<>>
    ELSE LET n == Head(blocks)
         IN  IF cur[1] + cur[3] = n[1] /\ cur[2] + cur[3] = n[2]
             THEN collapse(<<cur[1], cur[2], cur[3] + n[3]>>, Tail(blocks))
             ELSE (IF cur[3] > 0 THEN <<cur>> ELSE <<>>) \o collapse(n, Tail(blocks))

\* SequenceMatcher.get_matching_blocks
get_matching_blocks(a, b) ==
    collapse(<<0, 0, 0>>, matching(a, b, 0, Len(a), 0, Len(b)))
        \o <<(<<Len(a), Len(b), 0>>)>>

Op(tag, i1, i2, j1, j2) == [tag |-> tag, i1 |-> i1, i2 |-> i2, j1 |-> j1, j2 |-> j2]

\* SequenceMatcher.get_opcodes
RECURSIVE opcodes(_, _, _)
opcodes(i, j, blocks) ==
    IF blocks = <<>> THEN <<>>
    ELSE
        LET ai   == Head(blocks)[1]
            bj   == Head(blocks)[2]
            size == Head(blocks)[3]
            tag  == IF i < ai /\ j < bj THEN "replace"
                    ELSE IF i < ai THEN "delete"
                    ELSE IF j < bj THEN "insert"
                    ELSE ""
        IN  (IF tag # "" THEN <<Op(tag, i, ai, j, bj)>> ELSE <<>>)
            \o (IF size > 0 THEN <<Op("equal", ai, ai + size, bj, bj + size)>> ELSE <<>>)
            \o opcodes(ai + size, bj + size, Tail(blocks))

get_opcodes(a, b) == opcodes(0, 0, get_matching_blocks(a, b))

\* the lines of context difflib.unified_diff keeps around a change (its n)
ContextLines == 3

\* the loop of SequenceMatcher.get_grouped_opcodes: the groups, given the
\* group being filled; an equal run longer than 2n ends one group and starts
\* the next
RECURSIVE grouping(_, _)
grouping(codes, group) ==
    IF codes = <<>> THEN
        IF group # <<>> /\ ~(Len(group) = 1 /\ group[1].tag = "equal")
        THEN <<group>> ELSE <<>>
    ELSE IF Head(codes).tag = "equal"
            /\ Head(codes).i2 - Head(codes).i1 > ContextLines + ContextLines THEN
        <<Append(group, Op("equal", Head(codes).i1,
                           Min(Head(codes).i2, Head(codes).i1 + ContextLines),
                           Head(codes).j1,
                           Min(Head(codes).j2, Head(codes).j1 + ContextLines)))>>
        \o grouping(Tail(codes),
                    <<Op("equal", Max(Head(codes).i1, Head(codes).i2 - ContextLines),
                         Head(codes).i2,
                         Max(Head(codes).j1, Head(codes).j2 - ContextLines),
                         Head(codes).j2)>>)
    ELSE grouping(Tail(codes), Append(group, Head(codes)))

\* SequenceMatcher.get_grouped_opcodes(n): no opcodes count as one equal line;
\* an equal run at either end is cut to n lines
some_codes(codes) == IF codes = <<>> THEN <<Op("equal", 0, 1, 0, 1)>> ELSE codes

cut_front(c, n) == Op(c.tag, Max(c.i1, c.i2 - n), c.i2, Max(c.j1, c.j2 - n), c.j2)

cut_back(c, n) == Op(c.tag, c.i1, Min(c.i2, c.i1 + n), c.j1, Min(c.j2, c.j1 + n))

trim_first(codes) ==
    IF codes[1].tag = "equal"
    THEN <<cut_front(codes[1], ContextLines)>> \o Tail(codes)
    ELSE codes

trim_last(codes) ==
    IF codes[Len(codes)].tag = "equal"
    THEN Upto(codes, Len(codes) - 1) \o <<cut_back(codes[Len(codes)], ContextLines)>>
    ELSE codes

get_grouped_opcodes(a, b) ==
    grouping(trim_last(trim_first(some_codes(get_opcodes(a, b)))), <<>>)

\* a line of the diff: what it starts with, its text, and (a hunk header) its
\* two ranges
DiffLine(k, s)    == [k |-> k, s |-> s, n |-> <<>>]
HunkLine(r1, r2)  == [k |-> "@@", s |-> <<>>, n |-> <<r1, r2>>]

\* difflib._format_range_unified: <<beginning>> or <<beginning, length>>
format_range_unified(start, stop) ==
    LET length == stop - start
    IN  IF length = 1 THEN <<start + 1>>
        ELSE IF length = 0 THEN <<start, length>>
        ELSE <<start + 1, length>>

Prefixed(k, lines) == [x \in 1..Len(lines) |-> DiffLine(k, lines[x])]

RECURSIVE hunk_lines(_, _, _)
hunk_lines(a, b, group) ==
    IF group = <<>> THEN <<>>
    ELSE
        LET c == Head(group)
        IN  (IF c.tag = "equal" THEN Prefixed(" ", SubSeq(a, c.i1 + 1, c.i2))
             ELSE (IF c.tag \in {"replace", "delete"}
                   THEN Prefixed("-", SubSeq(a, c.i1 + 1, c.i2)) ELSE <<>>)
                  \o (IF c.tag \in {"replace", "insert"}
                      THEN Prefixed("+", SubSeq(b, c.j1 + 1, c.j2)) ELSE <<>>))
            \o hunk_lines(a, b, Tail(group))

RECURSIVE hunks(_, _, _)
hunks(a, b, groups) ==
    IF groups = <<>> THEN <<>>
    ELSE
        LET g     == Head(groups)
            first == g[1]
            final == g[Len(g)]
        IN  <<HunkLine(format_range_unified(first.i1, final.i2),
                       format_range_unified(first.j1, final.j2))>>
            \o hunk_lines(a, b, g)
            \o hunks(a, b, Tail(groups))

\* difflib.unified_diff(a, b, lineterm=''): with no file names given, its own
\* two header lines carry none
diff_of_groups(a, b, groups) ==
    IF groups = <<>> THEN <<>>
    ELSE <<DiffLine("---", <<>>), DiffLine("+++", <<>>)>> \o hunks(a, b, groups)

unified_diff(a, b) == diff_of_groups(a, b, get_grouped_opcodes(a, b))

----------------------------------------------------------------------------
(* The edit engine *)

\* how much of oldText an error message shows
PreviewLen == 50

Preview(old_text) == Upto(old_text, Min(Len(old_text), PreviewLen))

Edit(old, new) == [oldText |-> old, newText |-> new]

\* the for loop as it would be over reversed(edits)
RECURSIVE edit_loop_reversed(_, _, _)
edit_loop_reversed(new_content, edits, trace) ==
    IF edits = <<>> THEN
        [err |-> "ok", value |-> <<>>, content |-> new_content, trace |-> trace]
    ELSE
        LET old_text == edits[Len(edits)].oldText
            new_text == edits[Len(edits)].newText
        IN  IF ~Contains(new_content, old_text) THEN
                [err |-> "TextNotFound", value |-> Preview(old_text),
                 content |-> new_content, trace |-> trace]
            ELSE IF count(new_content, old_text) > 1 THEN
                [err |-> "AmbiguousMatch", value |-> Preview(old_text),
                 content |-> new_content, trace |-> trace]
            ELSE
                LET replaced == replace_first(new_content, old_text, new_text)
                IN  edit_loop_reversed(replaced, SubSeq(edits, 1, Len(edits) - 1),
                                       Append(trace, Ev("apply", replaced)))

\* the for loop of apply_file_edits over the edits left, new_content being the
\* working copy: [err, value, content, trace], the trace holding the working
\* copy after each replacement
RECURSIVE edit_loop(_, _, _)
edit_loop(new_content, edits, trace) ==
    IF edits = <<>> THEN
        [err |-> "ok", value |-> <<>>, content |-> new_content, trace |-> trace]
    ELSE
        LET old_text == Head(edits).oldText
            new_text == Head(edits).newText
        IN  IF ~Contains(new_content, old_text) THEN
                [err |-> "TextNotFound", value |-> Preview(old_text),
                 content |-> new_content, trace |-> trace]
            ELSE IF count(new_content, old_text) > 1 THEN
                [err |-> "AmbiguousMatch", value |-> Preview(old_text),
                 content |-> new_content, trace |-> trace]
            ELSE
                LET replaced == replace_first(new_content, old_text, new_text)
                IN  edit_loop(replaced, Tail(edits), Append(trace, Ev("apply", replaced)))

\* apply_file_edits, from its end to its start: edits_diff is the diff it
\* returns; edits_written is what it returns, given how the write went;
\* edits_applied is its "if not dry_run", given how the loop went;
\* edits_read is its loop, given what read_file_content gave
edits_diff(file_path, content, new_content) ==
    <<DiffLine("---", file_path), DiffLine("+++", file_path)>>
    \o unified_diff(splitlines(content), splitlines(new_content))

edits_written(w, file_path, content, new_content, trace) ==
    IF w.err # "ok" THEN Outcome(w.fs, w.err, file_path, trace)
    ELSE Outcome(w.fs, "ok", edits_diff(file_path, content, new_content), trace)

\* edits_applied as it would be if the working copy were written back after
\* every edit: a failing edit leaves the edits before it on disk
edits_applied_each(fsys, file_path, content, e, dry_run) ==
    IF dry_run THEN
        IF e.err # "ok" THEN Outcome(fsys, e.err, e.value, e.trace)
        ELSE edits_written([err |-> "ok", fs |-> fsys], file_path, content,
                           e.content, e.trace)
    ELSE IF e.err # "ok" THEN
        Outcome(write_file_content(fsys, file_path, e.content).fs, e.err, e.value,
                Append(e.trace, Ev("write", file_path)))
    ELSE
        edits_written(write_file_content(fsys, file_path, e.content), file_path,
                      content, e.content, Append(e.trace, Ev("write", file_path)))

\* edits_applied as it would be without the test of dry_run
edits_applied_always(fsys, file_path, content, e, dry_run) ==
    IF e.err # "ok" THEN Outcome(fsys, e.err, e.value, e.trace)
    ELSE
        edits_written(write_file_content(fsys, file_path, e.content), file_path,
                      content, e.content, Append(e.trace, Ev("write", file_path)))

edits_applied(fsys, file_path, content, e, dry_run) ==
    IF e.err # "ok" THEN Outcome(fsys, e.err, e.value, e.trace)
    ELSE IF dry_run THEN
        edits_written([err |-> "ok", fs |-> fsys], file_path, content, e.content, e.trace)
    ELSE
        edits_written(write_file_content(fsys, file_path, e.content), file_path,
                      content, e.content, Append(e.trace, Ev("write", file_path)))

edits_read(fsys, file_path, r, edits, dry_run) ==
    IF r.err # "ok" THEN Outcome(fsys, r.err, file_path, <<Ev("read", file_path)>>)
    ELSE edits_applied(fsys, file_path, r.data,
                       edit_loop(r.data, edits, <<Ev("read", file_path)>>), dry_run)

apply_file_edits(fsys, file_path, edits, dry_run) ==
    edits_read(fsys, file_path, read_file_content(fsys, file_path), edits, dry_run)

----------------------------------------------------------------------------
(* The server: startup and the tools *)

NoCall == [op |-> "none"]

\* the server takes calls without end; the model follows it for MaxCalls calls
MaxCalls == 2

\* the server is waiting for a call
Serving == phase = "idle" /\ served < MaxCalls

\* a tool call as it would be if handlers called set_allowed_directories([])
Invoke_resetting(op, args, o) ==
    /\ Serving
    /\ served' = served + 1
    /\ phase' = "done"
    /\ fs' = o.fs
    /\ last' = [op |-> op, args |-> args, result |-> o.result, trace |-> o.trace,
                before |-> fs]
    /\ allowed_directories' = <<>>

\* a tool call: the handler runs to its end, leaving outcome o
Invoke(op, args, o) ==
    /\ Serving
    /\ served' = served + 1
    /\ phase' = "done"
    /\ fs' = o.fs
    /\ last' = [op |-> op, args |-> args, result |-> o.result, trace |-> o.trace,
                before |-> fs]
    /\ UNCHANGED allowed_directories

\* the result has been sent; the server waits for the next call
Return ==
    /\ phase = "done"
    /\ phase' = "idle"
    /\ last' = NoCall
    /\ UNCHANGED <<allowed_directories, fs, served>>

\* a handler's outcome after an os call that reads (r is [err, data]) and
\* after one that writes (r is [err, fs])
Got(r, value, trace) ==
    IF r.err = "ok" THEN Outcome(fs, "ok", value, trace)
    ELSE Outcome(fs, r.err, <<>>, trace)

GotData(r, trace) == Got(r, r.data, trace)

Done(r, value, trace) ==
    IF r.err = "ok" THEN Outcome(r.fs, "ok", value, trace)
    ELSE Outcome(r.fs, r.err, <<>>, trace)

\* a handler that starts with valid_path = validate_path(path), v being what
\* validate_path gave: the exception leaves the handler, or its body runs
Validated(path, v, body) ==
    IF ~v.ok THEN Denied(fs, path, v)
    ELSE Outcome(body.fs, body.result.kind, body.result.value,
                 <<EvValidate(path, v)>> \o body.trace)

\* 0 stands for None (and is as false as None)
read_text_file(path, tail, head) ==
    Serving /\ \E v \in {validate_path(path)} :
        Invoke("read_text_file", [path |-> path, tail |-> tail, head |-> head],
            IF head # 0 /\ tail # 0 THEN Outcome(fs, "ValueError", <<>>, <<>>)
            ELSE Validated(path, v,
                    GotData(IF tail # 0 THEN tail_file(fs, v.path, tail)
                            ELSE IF head # 0 THEN head_file(fs, v.path, head)
                            ELSE read_file_content(fs, v.path),
                            <<Ev("read", v.path)>>)))

\* read_file_as_base64 and the reply, of which the model keeps the length of
\* the data (the MIME type and the base64 text are not in the model)
media_reply(r) == [err |-> r.err, data |-> Len(r.data)]

read_media_file(path) ==
    Serving /\ \E v \in {validate_path(path)} :
        Invoke("read_media_file", [path |-> path],
            Validated(path, v,
                GotData(media_reply(read_open(fs, v.path)), <<Ev("read", v.path)>>)))

write_file(path, content) ==
    Serving /\ \E v \in {validate_path(path)} :
        Invoke("write_file", [path |-> path, content |-> content],
            Validated(path, v,
                Done(write_file_content(fs, v.path, content), path,
                     <<Ev("write", v.path)>>)))

edit_file(path, edits, dry_run) ==
    Serving /\ \E v \in {validate_path(path)} :
        Invoke("edit_file", [path |-> path, edits |-> edits, dry_run |-> dry_run],
            Validated(path, v, apply_file_edits(fs, v.path, edits, dry_run)))

create_directory(path) ==
    Serving /\ \E v \in {validate_path(path)} :
        Invoke("create_directory", [path |-> path],
            Validated(path, v,
                Done(makedirs(fs, v.path), path, <<Ev("makedirs", v.path)>>)))

\* the os calls a listing makes on the entries of valid_path
RECURSIVE EntryEvents(_, _)
EntryEvents(valid_path, names) ==
    IF names = {} THEN <<>>
    ELSE <<Ev("entry", join(valid_path, CHOOSE x \in names : TRUE))>>
         \o EntryEvents(valid_path, names \ {CHOOSE x \in names : TRUE})

ListingTrace(valid_path, l) ==
    <<Ev("listdir", valid_path)>> \o EntryEvents(valid_path, l.names)

\* the listing as the set of its lines, each the prefix and the name
listing(valid_path, l) ==
    Got(l,
        {<<IF isdir(fs, join(valid_path, n)) THEN "[DIR]" ELSE "[FILE]", n>> :
            n \in l.names},
        ListingTrace(valid_path, l))

list_directory(path) ==
    Serving /\ \E v \in {validate_path(path)} :
        Invoke("list_directory", [path |-> path],
            Validated(path, v, listing(v.path, listdir(fs, v.path))))

\* os.stat(entry_path).st_size, 0 when os.stat raises
sized(fsys, r) == IF r.err = "ok" /\ r.present THEN Len(fsys[r.path].data) ELSE 0

entry_size(fsys, entry_path) == sized(fsys, Lookup(fsys, entry_path, TRUE))

\* the listing's entries and, of its summary, the two counts; how the lines
\* are sorted and laid out is not in the model
summary(detailed_entries) ==
    [entries |-> detailed_entries,
     total_files |-> Cardinality({e \in detailed_entries : ~e.is_directory}),
     total_dirs |-> Cardinality({e \in detailed_entries : e.is_directory})]

listing_with_sizes(valid_path, l) ==
    Got(l,
        summary({[name |-> n, is_directory |-> isdir(fs, join(valid_path, n)),
                  size |-> entry_size(fs, join(valid_path, n))] : n \in l.names}),
        ListingTrace(valid_path, l))

list_directory_with_sizes(path, sort_by) ==
    Serving /\ \E v \in {validate_path(path)} :
        Invoke("list_directory_with_sizes", [path |-> path, sort_by |-> sort_by],
            Validated(path, v, listing_with_sizes(v.path, listdir(fs, v.path))))

directory_tree(path, exclude_patterns) ==
    Serving /\ \E v \in {validate_path(path)} :
        Invoke("directory_tree", [path |-> path, exclude_patterns |-> exclude_patterns],
            Validated(path, v,
                GotData(build_directory_tree(fs, v.path, exclude_patterns),
                        ListingTrace(v.path, listdir(fs, v.path)))))

\* move_file as it would be with os.rename(valid_source, destination), the
\* destination not validated
move_unvalidated(source, destination, vs, vd) ==
    Done(rename(fs, vs.path, abspath(destination)), <<source, destination>>,
         <<EvValidate(source, vs), EvRename(vs.path, abspath(destination))>>)

\* move_file: the second validation and the rename, the first having passed
move_validated(source, destination, vs, vd) ==
    IF ~vd.ok THEN
        Outcome(fs, "AccessDenied", destination,
                <<EvValidate(source, vs), EvValidate(destination, vd)>>)
    ELSE Done(rename(fs, vs.path, vd.path), <<source, destination>>,
              <<EvValidate(source, vs), EvValidate(destination, vd),
                EvRename(vs.path, vd.path)>>)

move_file(source, destination) ==
    Serving /\ \E vs \in {validate_path(source)}, vd \in {validate_path(destination)} :
        Invoke("move_file", [source |-> source, destination |-> destination],
            IF ~vs.ok THEN Denied(fs, source, vs)
            ELSE move_validated(source, destination, vs, vd))

\* how many frames deep Python lets calls nest before it raises RecursionError
RecursionLimit == 3

\* what the module's global name search_files is bound to when a tool runs:
\* the def of FileServer.py:410 rebinds the name the def of line 132 bound
\* (mcp.tool() registers the function and gives it back)
search_files_binding == "tool"

\* what the tool search_files makes of what its call of search_files gave
search_reply(inner) ==
    IF inner.result.kind # "ok" THEN inner
    ELSE IF inner.result.value # {} THEN
        Outcome(fs, "ok", [text |-> "matches", matches |-> inner.result.value],
                inner.trace)
    ELSE Outcome(fs, "ok", [text |-> "No matches found", matches |-> {}], inner.trace)

\* the body of the tool search_files, depth calls deep; its call of
\* search_files goes to whatever the global name is bound to
RECURSIVE search_files_body(_, _, _, _), search_files_call(_, _, _, _)
search_files_call(valid_path, pattern, exclude_patterns, depth) ==
    IF search_files_binding = "tool"
    THEN search_files_body(valid_path, pattern, exclude_patterns, depth + 1)
    ELSE Outcome(fs, "ok",
                 search_files_helper(fs, valid_path, pattern, exclude_patterns),
                 <<Ev("walk", valid_path)>>)

search_files_valid(path, v, pattern, exclude_patterns, depth) ==
    Validated(path, v,
        search_reply(search_files_call(v.path, pattern, exclude_patterns, depth)))

search_files_body(path, pattern, exclude_patterns, depth) ==
    IF depth >= RecursionLimit THEN Outcome(fs, "RecursionError", <<>>, <<>>)
    ELSE search_files_valid(path, validate_path(path), pattern, exclude_patterns, depth)

search_files(path, pattern, exclude_patterns) ==
    Serving /\ Invoke("search_files",
           [path |-> path, pattern |-> pattern, exclude_patterns |-> exclude_patterns],
           search_files_body(path, pattern, exclude_patterns, 0))

get_file_info(path) ==
    Serving /\ \E v \in {validate_path(path)} :
        Invoke("get_file_info", [path |-> path],
            Validated(path, v,
                GotData(get_file_stats(fs, v.path), <<Ev("stat", v.path)>>)))

list_allowed_directories ==
    Serving /\ Invoke("list_allowed_directories", [path |-> <<>>],
           Outcome(fs, "ok", allowed_directories, <<>>))

\* set_allowed_directories: the new value of the global
set_allowed_directories(directories) == directories

\* the loop of main over the command line: [ok, dirs]; initial_dir is its
\* body, given what os.path.realpath did
RECURSIVE initial_dirs(_, _)
initial_dir(resolved, normalized, args, dirs) ==
    IF resolved.raised \/ ~isdir(fs, normalized)
    THEN [ok |-> FALSE, dirs |-> dirs]
    ELSE initial_dirs(Tail(args), Append(dirs, normalized))

initial_resolved(resolved, args, dirs) ==
    initial_dir(resolved, normalize_path(resolved.path), args, dirs)

initial_dirs(args, dirs) ==
    IF args = <<>> THEN [ok |-> TRUE, dirs |-> dirs]
    ELSE initial_resolved(realpath(fs, abspath(expand_home(Head(args)))), args, dirs)

\* main: the process exits, or stores the roots and serves
main(args) ==
    phase = "init" /\ \E d \in {initial_dirs(args, <<>>)} :
        /\ IF Len(args) = 0 \/ ~d.ok
           THEN phase' = "exited" /\ UNCHANGED allowed_directories
           ELSE phase' = "idle" /\ allowed_directories' = set_allowed_directories(d.dirs)
        /\ UNCHANGED <<fs, last, served>>

----------------------------------------------------------------------------
(* The filesystem the server starts on, and what its callers send *)

p_d    == <<"/", "d">>
p_d2   == <<"/", "d", "2">>
p_o    == <<"/", "o">>
p_f    == <<"/", "d", "/", "f">>
p_sub  == <<"/", "d", "/", "s">>
p_g    == <<"/", "d", "/", "s", "/", "g">>
p_x    == <<"/", "d", "2", "/", "x">>
p_secret == <<"/", "o", "/", "p">>
p_new  == <<"/", "d", "/", "n">>

\* /d is the directory the server is started on; /d2 is a sibling whose name
\* extends /d's; /o is elsewhere (and is the caller's home).  Of the links in
\* /d, l and e lead out of it (to /o and to /o/p), k, k2 and m stay inside,
\* a and b form a loop.
InitFS ==
    (ROOT :> Dir)
    @@ (p_d :> Dir) @@ (p_f :> File(<<"a", "\n", "b">>))
    @@ (p_sub :> Dir) @@ (p_g :> File(<<"a">>))
    @@ (<<"/", "d", "/", "l">> :> Link(<<".", ".", "/", "o">>))
    @@ (<<"/", "d", "/", "e">> :> Link(p_secret))
    @@ (<<"/", "d", "/", "k">> :> Link(p_f))
    @@ (<<"/", "d", "/", "k", "2">> :> Link(<<"k">>))
    @@ (<<"/", "d", "/", "m">> :> Link(p_sub))
    @@ (<<"/", "d", "/", "a">> :> Link(<<"/", "d", "/", "b", "/", "x">>))
    @@ (<<"/", "d", "/", "b">> :> Link(<<"/", "d", "/", "a">>))
    @@ (p_d2 :> Dir) @@ (p_x :> File(<<"b">>))
    @@ (p_o :> Dir) @@ (p_secret :> File(<<"a", "a">>))

\* the command lines main is given
ArgLists ==
    { <<>>,                                  \* no directory: usage, exit
      <<p_d>>,
      <<<<"/", "d", "/">>, <<"~">>>>,         \* /d and the home directory /o
      <<<<"s">>>>,                            \* relative to the working directory: /d/s
      <<p_f>>,                                \* not a directory: exit
      <<p_d, p_new>> }                        \* the second does not exist: exit

\* the paths callers send
InputPaths ==
    { p_f,                                              \* a file of the root
      <<"f">>,                                          \* the same, relative
      p_d,                                              \* the root itself
      <<"/", "d", "/", ".", "/", "s">>,                 \* a directory of the root
      p_g,
      p_new,                                            \* not there yet
      <<"/", "d", "/", "m", "/", "n">>,                 \* not there yet, through a link
      <<"/", "d", "/", "k", "2">>,                      \* a link to a link to /d/f
      <<"/", "d", "/", "l", "/", "p">>,                 \* through a link out of the root
      <<"/", "d", "/", "e">>,                           \* a link out of the root
      <<"/", "d", "/", ".", ".", "/", "o", "/", "p">>,  \* .. out of the root
      <<"~", "/", "p">>,                                \* the home directory
      p_secret,
      p_x,                                              \* the sibling /d2
      <<"/", "d", "/", "a">>,                           \* a link loop
      <<"/", "d", "/", "m", "/", NUL>> }                \* a NUL character

Contents == { <<"b">> }

EditLists ==
    { <<>>,
      <<Edit(<<"a">>, <<"b">>)>>,
      <<Edit(<<"a">>, <<"c">>), Edit(<<"x">>, <<"y">>)>> }

Patterns == { <<"*">>, <<"g">> }

ExcludeLists == { <<>>, <<(<<"s">>)>> }

LineCounts == {0, 1}

Init ==
    /\ phase = "init"
    /\ allowed_directories = <<>>
    /\ fs = InitFS
    /\ last = NoCall
    /\ served = 0

Next ==
    \/ \E args \in ArgLists : main(args)
    \/ \E path \in InputPaths, tail \in LineCounts, head \in LineCounts :
            read_text_file(path, tail, head)
    \/ \E path \in InputPaths : read_media_file(path)
    \/ \E path \in InputPaths, content \in Contents : write_file(path, content)
    \/ \E path \in InputPaths, edits \in EditLists, dry_run \in BOOLEAN :
            edit_file(path, edits, dry_run)
    \/ \E path \in InputPaths : create_directory(path)
    \/ \E path \in InputPaths : list_directory(path)
    \/ \E path \in InputPaths, sort_by \in {"name", "size"} :
            list_directory_with_sizes(path, sort_by)
    \/ \E path \in InputPaths, excl \in ExcludeLists : directory_tree(path, excl)
    \/ \E source \in InputPaths, destination \in InputPaths :
            move_file(source, destination)
    \/ \E path \in InputPaths, pattern \in Patterns, excl \in ExcludeLists :
            search_files(path, pattern, excl)
    \/ \E path \in InputPaths : get_file_info(path)
    \/ list_allowed_directories
    \/ Return

Spec == Init /\ [][Next]_vars

----------------------------------------------------------------------------
(* The edit engine on its own: one call of edit_file on /d/f, whatever the
   file holds and whatever the edits are *)

\* the longest file content and the longest edit list
MaxLen == 3
MaxEdits == 2

Alphabet == {"a", "b", "\n"}

\* the texts of at most n characters
Texts(n) == UNION {[1..k -> Alphabet] : k \in 0..n}

OldTexts == {<<>>, <<"a">>, <<"b">>, <<"a", "a">>}
NewTexts == {<<"b">>, <<"c">>}

EditSeqs(n) ==
    UNION {[1..k -> {Edit(old, new) : old \in OldTexts, new \in NewTexts}] : k \in 0..n}

EditFS(c) == (ROOT :> Dir) @@ (p_d :> Dir) @@ (p_f :> File(c))

InitEdit ==
    /\ phase = "idle"
    /\ allowed_directories = <<p_d>>
    /\ fs \in {EditFS(c) : c \in Texts(MaxLen)}
    /\ last = NoCall
    /\ served = 0

NextEdit ==
    \E edits \in EditSeqs(MaxEdits), dry_run \in BOOLEAN : edit_file(p_f, edits, dry_run)

SpecEdit == InitEdit /\ [][NextEdit]_vars

----------------------------------------------------------------------------
(* Properties *)

\* p is root or below it
Inside(p, root) == root = ROOT \/ p = root \/ StartsWith(p, root \o <<SEP>>)

InsideSomeRoot(p) ==
    \E i \in 1..Len(allowed_directories) : Inside(p, allowed_directories[i])

\* where a path leads: home expansion, absolutisation, symlink resolution
\* and normalisation
Resolved(P) == resolve_path(abspath(expand_home(P)))

\* the paths the properties of validate_path are checked on
CheckedPaths == InputPaths \cup DOMAIN fs

Called(op) == phase = "done" /\ last.op = op

\* C1: a path that leads outside every allowed root is denied by validate_path,
\* a sibling whose name extends a root's name and a link out of a root included
C1_Containment ==
    phase = "idle" =>
        \A P \in CheckedPaths : ~InsideSomeRoot(Resolved(P)) => ~validate_path(P).ok

\* a call of edit_file that got as far as reading the file
EditCall ==
    /\ Called("edit_file")
    /\ Len(last.trace) >= 2
    /\ last.trace[2].kind = "read"
    /\ read_file_content(last.before, last.trace[2].arg).err = "ok"

EditTarget == last.trace[2].arg

Original == read_file_content(last.before, EditTarget).data

IsApply(ev) == ev.kind = "apply"

\* the working copies of the call: the content read, then the content after
\* each replacement
Working == <<Original>> \o [i \in 1..Len(SelectSeq(last.trace, IsApply)) |->
                                SelectSeq(last.trace, IsApply)[i].arg]

Applied == Len(Working) - 1

EditFailed == last.result.kind \in {"TextNotFound", "AmbiguousMatch"}

\* C2: when an edit of the list fails, a call with dry_run = false raises and
\* leaves the file as it was; the file is written once, after every edit of
\* the list has been applied
C2_AtomicFailure ==
    EditCall /\ ~last.args.dry_run =>
        /\ EditFailed => fs = last.before
        /\ \A i \in DOMAIN last.trace :
                last.trace[i].kind = "write" =>
                    /\ i = Len(last.trace)
                    /\ Applied = Len(last.args.edits)
                    /\ last.result.kind = "ok"
        /\ last.result.kind = "ok" => fs[EditTarget].data = Working[Len(Working)]

\* the second or a later edit failed, the ones before it applied in memory
C2_Witness ==
    /\ EditCall /\ ~last.args.dry_run
    /\ EditFailed
    /\ Applied >= 1
    /\ Working[Len(Working)] # Original
    /\ fs = last.before

\* the places of c at which old occurs, overlapping ones included
Occurrences(c, old) ==
    {k \in 0..(Len(c) - Len(old)) : SubSeq(c, k + 1, k + Len(old)) = old}

\* C3: each edit's oldText must occur exactly once in the working copy: with
\* no occurrence the call fails with text-not-found, with more than one
\* (overlapping ones count, and so does the empty oldText) with
\* ambiguous-match, and with exactly one that occurrence is replaced
C3_EditUniqueness ==
    EditCall =>
        \A k \in 1..Len(last.args.edits) :
            k <= Applied + 1 =>
                LET old == last.args.edits[k].oldText
                    new == last.args.edits[k].newText
                    occ == Occurrences(Working[k], old)
                IN  /\ occ = {} => k = Applied + 1 /\ last.result.kind = "TextNotFound"
                    /\ (Cardinality(occ) > 1 \/ old = <<>>) =>
                            k = Applied + 1 /\ last.result.kind = "AmbiguousMatch"
                    /\ (Cardinality(occ) = 1 /\ old # <<>>) =>
                            /\ k <= Applied
                            /\ \A o \in occ :
                                Working[k + 1] =
                                    SubSeq(Working[k], 1, o) \o new
                                    \o SubSeq(Working[k], o + Len(old) + 1, Len(Working[k]))

\* C4: a call with dry_run = true leaves the file as it was, whether the edits
\* succeed or fail, and when they succeed it returns the diff the same call
\* with dry_run = false returns from the same file content
C4_DryRun ==
    EditCall /\ last.args.dry_run =>
        /\ fs = last.before
        /\ \A i \in DOMAIN last.trace : last.trace[i].kind # "write"
        /\ last.result.kind = "ok" =>
                last.result.value =
                    apply_file_edits(last.before, EditTarget, last.args.edits, FALSE)
                        .result.value

\* a dry run whose edits changed the working copy: the diff has hunks, and the
\* call with dry_run = false would have changed the file
C4_Witness ==
    /\ EditCall /\ last.args.dry_run
    /\ last.result.kind = "ok"
    /\ Applied >= 1
    /\ Len(last.result.value) > 4
    /\ fs = last.before
    /\ apply_file_edits(last.before, EditTarget, last.args.edits, FALSE).fs # fs

\* C5: the edits are taken in list order, each checked and applied against
\* the content the edits before it produced: on "a", [a->b, b->c] ends as "c",
\* and [b->c, a->b] fails with text-not-found on its first edit
C5_SequentialVisibility ==
    EditCall =>
        /\ Applied <= Len(last.args.edits)
        /\ \A k \in 1..Applied :
                /\ Contains(Working[k], last.args.edits[k].oldText)
                /\ Working[k + 1] = replace_first(Working[k], last.args.edits[k].oldText,
                                                  last.args.edits[k].newText)
        /\ last.result.kind = "TextNotFound" =>
                /\ Applied < Len(last.args.edits)
                /\ ~Contains(Working[Applied + 1], last.args.edits[Applied + 1].oldText)
                /\ last.result.value = Preview(last.args.edits[Applied + 1].oldText)
        /\ last.result.kind = "ok" => Applied = Len(last.args.edits)
        /\ (Original = <<"a">> /\ ~last.args.dry_run
            /\ last.args.edits = <<Edit(<<"a">>, <<"b">>), Edit(<<"b">>, <<"c">>)>>) =>
                last.result.kind = "ok" /\ fs[EditTarget].data = <<"c">>
        /\ (Original = <<"a">>
            /\ last.args.edits = <<Edit(<<"b">>, <<"c">>), Edit(<<"a">>, <<"b">>)>>) =>
                /\ last.result.kind = "TextNotFound"
                /\ last.result.value = <<"b">>
                /\ Applied = 0

\* the second edit's anchor is there only because the first put it there
C5_Witness ==
    /\ EditCall /\ ~last.args.dry_run
    /\ Original = <<"a">>
    /\ last.args.edits = <<Edit(<<"a">>, <<"b">>), Edit(<<"b">>, <<"c">>)>>
    /\ ~Contains(Original, <<"b">>)
    /\ fs[EditTarget].data = <<"c">>

Tools ==
    {"read_text_file", "read_media_file", "write_file", "edit_file",
     "create_directory", "list_directory", "list_directory_with_sizes",
     "directory_tree", "move_file", "search_files", "get_file_info"}

\* the path arguments of the call
PathArgs ==
    IF last.op = "move_file" THEN {last.args.source, last.args.destination}
    ELSE {last.args.path}

\* the os calls that read a file's content or the filesystem, or change it
Touches == {"read", "write", "makedirs", "listdir", "stat", "walk", "rename"}

\* before step i of the call, validate_path succeeded on an argument and gave p
ValidatedBefore(i, p) ==
    \E j \in 1..(i - 1) :
        /\ last.trace[j].kind = "validate"
        /\ last.trace[j].ok
        /\ last.trace[j].arg \in PathArgs
        /\ last.trace[j].out = p

\* C6: in every tool, an os call touches only what validate_path returned for
\* a path argument earlier in the same call; a denied validation ends the
\* call with the access-denied error and the filesystem as it was, so
\* move_file renames only when both its paths have passed
C6_ValidateBeforeTouch ==
    phase = "done" /\ last.op \in Tools =>
        /\ \A i \in DOMAIN last.trace :
            /\ last.trace[i].kind \in Touches => ValidatedBefore(i, last.trace[i].arg)
            /\ last.trace[i].kind = "rename" => ValidatedBefore(i, last.trace[i].out)
            /\ last.trace[i].kind = "entry" =>
                    ValidatedBefore(i, dirname(last.trace[i].arg))
            /\ (last.trace[i].kind = "validate" /\ ~last.trace[i].ok) =>
                    /\ i = Len(last.trace)
                    /\ last.result.kind = "AccessDenied"
                    /\ fs = last.before
        /\ fs # last.before =>
                \E i \in DOMAIN last.trace :
                    last.trace[i].kind \in {"write", "makedirs", "rename"}

\* move_file with its source allowed and its destination denied: no rename
C6_Witness ==
    /\ Called("move_file")
    /\ Len(last.trace) = 2
    /\ last.trace[1].ok
    /\ ~last.trace[2].ok
    /\ last.result.kind = "AccessDenied"
    /\ fs = last.before

\* C7: once main has stored the allowed roots, no step changes the list
C7_RootsImmutable ==
    [][phase # "init" => allowed_directories' = allowed_directories]_vars

\* a call that changed the filesystem and then a call that failed, the roots
\* being the two main stored
C7_Witness ==
    /\ phase = "done"
    /\ served = MaxCalls
    /\ fs # InitFS
    /\ last.result.kind # "ok"
    /\ allowed_directories = <<p_d, p_o>>

\* resolving the path runs into a loop of symbolic links
MeetsLoop(P) ==
    /\ ~joinrealpath(fs, <<>>, abspath(expand_home(P)), <<>>).ok
    /\ ~joinrealpath(fs, <<>>, abspath(expand_home(P)), <<>>).raised

\* C8 as the spec states it: for a path that leads inside an allowed root,
\* validate_path succeeds, and on its result it succeeds and returns that result
C8_Idempotence ==
    phase = "idle" =>
        \A P \in CheckedPaths :
            InsideSomeRoot(Resolved(P)) =>
                /\ validate_path(P).ok
                /\ validate_path(validate_path(P).path) = validate_path(P)

\* C8, amended: the same for the paths whose resolution meets no loop of
\* symbolic links; for the others the result passes validation again, but
\* need not come back the same
C8_IdempotenceLoopFree ==
    phase = "idle" =>
        \A P \in CheckedPaths :
            InsideSomeRoot(Resolved(P)) =>
                /\ validate_path(P).ok
                /\ validate_path(validate_path(P).path).ok
                /\ ~MeetsLoop(P) =>
                        validate_path(validate_path(P).path) = validate_path(P)

\* a link to a link to a file: the result is the file, and the file validates
\* to itself
C8_Witness ==
    /\ phase = "idle"
    /\ ~MeetsLoop(<<"/", "d", "/", "k", "2">>)
    /\ validate_path(<<"/", "d", "/", "k", "2">>) = [ok |-> TRUE, path |-> p_f]
    /\ validate_path(p_f) = [ok |-> TRUE, path |-> p_f]

\* in fsys, P names something that is not there, in a directory that is there
\* and lies inside an allowed root
Creatable(fsys, P) ==
    /\ ~HasNul(P)
    /\ isdir(fsys, dirname(abspath(expand_home(P))))
    /\ InsideSomeRoot(realpath(fsys, dirname(abspath(expand_home(P)))).path)
    /\ split(abspath(expand_home(P)))[2] # <<>>
    /\ ~Lookup(fsys, abspath(expand_home(P)), FALSE).present

\* the parent's resolved path joined with the final component
Target(fsys, P) ==
    join(realpath(fsys, dirname(abspath(expand_home(P)))).path,
         split(abspath(expand_home(P)))[2])

\* C9: for a path whose parent directory exists inside an allowed root and
\* whose final component does not exist, validate_path succeeds and returns
\* the parent's resolved path joined with the final component, and write_file
\* on the path creates the file there
C9_NonExistentCreation ==
    /\ phase = "idle" =>
        \A P \in CheckedPaths :
            Creatable(fs, P) => validate_path(P) = [ok |-> TRUE, path |-> Target(fs, P)]
    /\ (Called("write_file") /\ Creatable(last.before, last.args.path)) =>
            /\ last.result.kind = "ok"
            /\ last.trace[1].out = Target(last.before, last.args.path)
            /\ Target(last.before, last.args.path) \notin DOMAIN last.before
            /\ fs[Target(last.before, last.args.path)] = File(last.args.content)

\* write_file created /d/s/n, asked for /d/m/n, m being a link to /d/s
C9_Witness ==
    /\ Called("write_file")
    /\ last.args.path = <<"/", "d", "/", "m", "/", "n">>
    /\ Creatable(last.before, last.args.path)
    /\ last.result.kind = "ok"
    /\ <<"/", "d", "/", "s", "/", "n">> \notin DOMAIN last.before
    /\ fs[<<"/", "d", "/", "s", "/", "n">>] = File(last.args.content)

\* C10: the tool search_files, called on a path inside an allowed root, ends
\* with the matches of the directory walk or with "No matches found", its
\* inner call having reached the helper that walks
C10_SearchTerminates ==
    (Called("search_files") /\ InsideSomeRoot(Resolved(last.args.path))) =>
        /\ last.result.kind = "ok"
        /\ \E i \in DOMAIN last.trace :
                last.trace[i].kind = "walk" /\ ValidatedBefore(i, last.trace[i].arg)
        /\ last.result.value.matches =
                search_files_helper(last.before, validate_path(last.args.path).path,
                                    last.args.pattern, last.args.exclude_patterns)

====
